---- MODULE Spec2Model ----
(***************************************************************************)
(* Model of deployment-templates/generators/merge_templates.py: the        *)
(* template merger (merge_template) and its command line driver (main).    *)
(*                                                                         *)
(* Text is a sequence of tokens.  A token is a piece of text that the      *)
(* program only ever handles whole: a line break, one indentation step of  *)
(* four spaces, a single space, a word, or a complete template directive.  *)
(* Substring search, replacement, split, join and strip are Python's,      *)
(* carried out on token sequences.                                         *)
(***************************************************************************)
EXTENDS Naturals, Sequences, FiniteSets, TLC

VARIABLES
    pc,                 \* position of the run inside main / merge_template
    fs,                 \* the files and the command line the run was given
    template_content,   \* merge_template's working document
    before,             \* the document as it was before the last step
    service_config,     \* merge_template's local service_config
    service_override,   \* merge_template's local service_override
    health_check_path,  \* merge_template's local health_check_path
    gi,                 \* index of the next entry of systemd_conditionals
    mi,                 \* index of the next entry of includes
    out,                \* the file at output_path
    done,               \* the stages that have completed, in order
    exitCode            \* the process's exit status, once it has exited

vars == <<pc, fs, template_content, before, service_config, service_override,
          health_check_path, gi, mi, out, done, exitCode>>

(***************************************************************************)
(* Tokens                                                                  *)
(***************************************************************************)
NL == "\n"
IND == "    "
SP == " "
Whitespace == {NL, IND, SP}

NAME == "- name:"
HOSTS == "- hosts:"
POINT == "# SERVICE-SPECIFIC INJECTION POINT:"
ENDIF == "{% endif %}"
IFSYSTEMD == "{% if service_systemd_service is defined and service_systemd_service %}"
STATUSCHECKS == "# SERVICE STATUS CHECKS (only if systemd service is enabled)"
HCCOMMENT == "# Health check path from service configuration"
SETOPEN == "{% set health_check_path = '"
SETCLOSE == "' %}"

(***************************************************************************)
(* Python's str and list operations, on token sequences                    *)
(***************************************************************************)
\* s[i:] with i counted from 1
From(s, i) == SubSeq(s, i, Len(s))

\* s[:i] exclusive, with i counted from 1
Upto(s, i) == SubSeq(s, 1, i - 1)

\* s.startswith(p, i)
StartsAt(s, p, i) ==
    /\ i >= 1
    /\ i + Len(p) - 1 <= Len(s)
    /\ SubSeq(s, i, i + Len(p) - 1) = p

\* s.find(p, start): the lowest position >= start where p occurs; 0 plays
\* the part of Python's -1
RECURSIVE Find(_, _, _)
Find(s, p, start) ==
    IF start + Len(p) - 1 > Len(s) THEN 0
    ELSE IF StartsAt(s, p, start) THEN start
    ELSE Find(s, p, start + 1)

\* p in s
In(p, s) == Find(s, p, 1) # 0

\* s.replace(p, r): every occurrence, left to right, not overlapping, and
\* the replacement text is not searched again
RECURSIVE Replace(_, _, _)
Replace(s, p, r) ==
    IF s = <<>> THEN <<>>
    ELSE IF StartsAt(s, p, 1) THEN r \o Replace(From(s, Len(p) + 1), p, r)
    ELSE <<Head(s)>> \o Replace(Tail(s), p, r)

\* s.split('\n'): always at least one line
RECURSIVE Split(_)
Split(s) ==
    LET n == Find(s, <<NL>>, 1)
    IN  IF n = 0 THEN <<s>>
        ELSE <<Upto(s, n)>> \o Split(From(s, n + 1))

\* '\n'.join(lines)
RECURSIVE Join(_)
Join(lines) ==
    IF lines = <<>> THEN <<>>
    ELSE IF Len(lines) = 1 THEN lines[1]
    ELSE lines[1] \o <<NL>> \o Join(Tail(lines))

RECURSIVE LStrip(_)
LStrip(s) ==
    IF s # <<>> /\ Head(s) \in Whitespace THEN LStrip(Tail(s)) ELSE s

RECURSIVE RStrip(_)
RStrip(s) ==
    IF s # <<>> /\ s[Len(s)] \in Whitespace THEN RStrip(Upto(s, Len(s))) ELSE s

\* s.strip()
Strip(s) == RStrip(LStrip(s))

\* lines.insert(i, x), with i counted from 1
Insert(lines, i, x) == Upto(lines, i) \o <<x>> \o From(lines, i)

(***************************************************************************)
(* The marker catalog: merge_template's includes, in the order written     *)
(***************************************************************************)
FragmentPattern(header, iftoken, include) ==
    <<POINT, SP>> \o header \o <<NL, IND, iftoken, NL, IND, include, NL, IND, ENDIF>>

includes ==
    << [ name |-> <<"runtime", "_", "install">>,
         file |-> "runtime_install.yml.j2",
         start_pattern |-> FragmentPattern(<<"Runtime", SP, "Installation">>,
             "{% if service_runtime_install is defined and service_runtime_install %}",
             "{% include 'service-parts/runtime_install.yml.j2' %}"),
         simple_pattern |-> <<"{% include 'service-parts/runtime_install.yml.j2' %}">> ],
       [ name |-> <<"dependency", "_", "install">>,
         file |-> "dependency_install.yml.j2",
         start_pattern |-> FragmentPattern(<<"Dependency", SP, "Installation">>,
             "{% if service_dependency_install is defined and service_dependency_install %}",
             "{% include 'service-parts/dependency_install.yml.j2' %}"),
         simple_pattern |-> <<"{% include 'service-parts/dependency_install.yml.j2' %}">> ],
       [ name |-> <<"build", "_", "tasks">>,
         file |-> "build_tasks.yml.j2",
         start_pattern |-> FragmentPattern(<<"Build", SP, "Tasks">>,
             "{% if service_build_tasks is defined and service_build_tasks %}",
             "{% include 'service-parts/build_tasks.yml.j2' %}"),
         simple_pattern |-> <<"{% include 'service-parts/build_tasks.yml.j2' %}">> ],
       [ name |-> <<"redeploy", "_", "tasks">>,
         file |-> "redeploy_tasks.yml.j2",
         start_pattern |-> FragmentPattern(<<"Redeployment", SP, "Tasks">>,
             "{% if service_redeploy_tasks is defined and service_redeploy_tasks %}",
             "{% include 'service-parts/redeploy_tasks.yml.j2' %}"),
         simple_pattern |-> <<"{% include 'service-parts/redeploy_tasks.yml.j2' %}">> ],
       [ name |-> <<"health", "_", "check">>,
         file |-> "health_check.yml.j2",
         start_pattern |-> FragmentPattern(<<"Health", SP, "Check">>,
             "{% if service_health_check is defined and service_health_check %}",
             "{% include 'service-parts/health_check.yml.j2' %}"),
         simple_pattern |-> <<"{% include 'service-parts/health_check.yml.j2' %}">> ] >>

FragmentFiles == { includes[i].file : i \in DOMAIN includes }

\* str.title() on one word of a marker name
Capitalize(w) ==
    CASE w = "runtime"    -> "Runtime"
      [] w = "install"    -> "Install"
      [] w = "dependency" -> "Dependency"
      [] w = "build"      -> "Build"
      [] w = "tasks"      -> "Tasks"
      [] w = "redeploy"   -> "Redeploy"
      [] w = "health"     -> "Health"
      [] w = "check"      -> "Check"
      [] OTHER            -> w

\* include_name.replace('_', ' ').title()
Title(name) ==
    LET spaced == Replace(name, <<"_">>, <<SP>>)
    IN  [ i \in DOMAIN spaced |-> Capitalize(spaced[i]) ]

(***************************************************************************)
(* The stage guards: merge_template's systemd_conditionals                 *)
(***************************************************************************)
systemd_conditionals ==
    << [ start |-> <<POINT, SP, "Systemd", SP, "Service", NL, IND, IFSYSTEMD>>,
         end   |-> <<IND, ENDIF>> ],
       [ start |-> <<IND, STATUSCHECKS, NL, IND, IFSYSTEMD>>,
         end   |-> <<IND, ENDIF>> ] >>

\* UnwrapStep with the tail taken from end_pos: the end token stays
UnwrapStep_KeepsEndToken(doc, conditional) ==
    IF In(conditional.start, doc)
    THEN LET start_pos == Find(doc, conditional.start, 1)
             end_pos == Find(doc, conditional.end, start_pos)
         IN  IF end_pos # 0
             THEN LET systemd_content ==
                          SubSeq(doc, start_pos + Len(conditional.start), end_pos - 1)
                      replacement ==
                          IF In(<<STATUSCHECKS>>, conditional.start)
                          THEN <<IND, STATUSCHECKS>> \o systemd_content
                          ELSE <<POINT, SP, "Systemd", SP, "Service">> \o systemd_content
                  IN  Upto(doc, start_pos) \o replacement \o From(doc, end_pos)
             ELSE doc
    ELSE doc

\* UnwrapStep without the test of end_pos: a guard with no end token is
\* unwrapped up to the end of the text
UnwrapStep_ToEndOfText(doc, conditional) ==
    IF In(conditional.start, doc)
    THEN LET start_pos == Find(doc, conditional.start, 1)
             found == Find(doc, conditional.end, start_pos)
             end_pos == IF found # 0 THEN found ELSE Len(doc) + 1
             systemd_content ==
                 SubSeq(doc, start_pos + Len(conditional.start), end_pos - 1)
             replacement ==
                 IF In(<<STATUSCHECKS>>, conditional.start)
                 THEN <<IND, STATUSCHECKS>> \o systemd_content
                 ELSE <<POINT, SP, "Systemd", SP, "Service">> \o systemd_content
         IN  Upto(doc, start_pos) \o replacement
                 \o From(doc, end_pos + Len(conditional.end))
    ELSE doc

\* One pass of the loop over systemd_conditionals, on document doc
UnwrapStep(doc, conditional) ==
    IF In(conditional.start, doc)
    THEN LET start_pos == Find(doc, conditional.start, 1)
             end_pos == Find(doc, conditional.end, start_pos)
         IN  IF end_pos # 0
             THEN LET systemd_content ==
                          SubSeq(doc, start_pos + Len(conditional.start), end_pos - 1)
                      replacement ==
                          IF In(<<STATUSCHECKS>>, conditional.start)
                          THEN <<IND, STATUSCHECKS>> \o systemd_content
                          ELSE <<POINT, SP, "Systemd", SP, "Service">> \o systemd_content
                  IN  Upto(doc, start_pos) \o replacement
                          \o From(doc, end_pos + Len(conditional.end))
             ELSE doc
    ELSE doc

(***************************************************************************)
(* The fragment splicer: one pass of the loop over includes                *)
(***************************************************************************)
\* The indentation loop: non-blank lines get four spaces, blank ones are
\* emptied
IndentLines(lines) ==
    [ i \in DOMAIN lines |->
        IF Strip(lines[i]) # <<>> THEN <<IND>> \o lines[i] ELSE <<>> ]

Indent(service_content) == Join(IndentLines(Split(Strip(service_content))))

\* parts maps each fragment file name to [exists, text]
SpliceStep(doc, include_info, parts) ==
    LET part == parts[include_info.file]
    IN  IF part.exists
        THEN IF In(include_info.start_pattern, doc)
             THEN Replace(doc, include_info.start_pattern,
                          <<IND, POINT, SP>> \o Title(include_info.name) \o <<NL>>
                              \o Indent(part.text))
             ELSE IF In(include_info.simple_pattern, doc)
             THEN Replace(doc, include_info.simple_pattern, Indent(part.text))
             ELSE doc
        ELSE IF In(include_info.start_pattern, doc)
             THEN Replace(doc, include_info.start_pattern, <<>>)
             ELSE IF In(include_info.simple_pattern, doc)
             THEN Replace(doc, include_info.simple_pattern, <<>>)
             ELSE doc

\* The loop over includes from entry i on, visiting the entries in the
\* given order
RECURSIVE SpliceFrom(_, _, _, _)
SpliceFrom(doc, order, i, parts) ==
    IF i > Len(order) THEN doc
    ELSE SpliceFrom(SpliceStep(doc, includes[order[i]], parts), order, i + 1, parts)

\* The order the loop visits them in: that of the dictionary
CatalogOrder == [i \in DOMAIN includes |-> i]

\* The whole loop over includes
SpliceAll(doc, parts) == SpliceFrom(doc, CatalogOrder, 1, parts)

(***************************************************************************)
(* The variable injector                                                   *)
(***************************************************************************)
\* line.strip().startswith('- name:') or line.strip().startswith('- hosts:')
IsDeclaration(line) ==
    LET stripped == Strip(line)
    IN  stripped # <<>> /\ Head(stripped) \in {NAME, HOSTS}

\* The scan without its break: the last declaration line is kept
InsertIndex_NoBreak(lines) ==
    IF \E i \in DOMAIN lines : IsDeclaration(lines[i])
    THEN CHOOSE i \in DOMAIN lines :
             /\ IsDeclaration(lines[i])
             /\ \A j \in (i + 1)..Len(lines) : ~IsDeclaration(lines[j])
    ELSE 1

\* The scan for insert_index, counted from 1: the first declaration line,
\* or the first line when there is none
InsertIndex(lines) ==
    IF \E i \in DOMAIN lines : IsDeclaration(lines[i])
    THEN CHOOSE i \in DOMAIN lines :
             /\ IsDeclaration(lines[i])
             /\ \A j \in 1..(i - 1) : ~IsDeclaration(lines[j])
    ELSE 1

\* value is the text the f-string writes for health_check_path
Inject(doc, value) ==
    LET lines == Split(doc)
        health_check_var == <<HCCOMMENT, NL, SETOPEN>> \o value \o <<SETCLOSE, NL>>
    IN  Join(Insert(lines, InsertIndex(lines), health_check_var))

(***************************************************************************)
(* The configuration resolver                                              *)
(***************************************************************************)
\* Python values: None, a str, a list, a dict seen through the one key
\* 'health_check_path'
None == [t |-> "none"]
Str(s) == [t |-> "str", s |-> s]
List == [t |-> "list"]
Dict(has, val) == [t |-> "dict", has |-> has, val |-> val]
EmptyDict == Dict(FALSE, None)

\* bool(v)
Truthy(v) ==
    CASE v.t = "none" -> FALSE
      [] v.t = "str"  -> v.s # <<>>
      [] v.t = "list" -> TRUE
      [] v.t = "dict" -> v.has

\* a or b
Or(a, b) == IF Truthy(a) THEN a ELSE b

\* d.get('health_check_path')
Get(d) == IF d.has THEN d.val ELSE None

\* d.get('health_check_path', default)
GetDefault(d, default) == IF d.has THEN d.val ELSE default

\* The text an f-string writes for v
Format(v) == IF v.t = "none" THEN <<"None">> ELSE v.s

\* A YAML file on disk is absent, unparseable, or holds a document;
\* yaml.safe_load gives the document
ConfigOf(file) == IF file.kind = "absent" THEN EmptyDict ELSE Or(file.doc, EmptyDict)

Raised == [t |-> "raised"]

\* ResolvePath with the override as the default-chain's head: an override
\* that has the key wins, whatever its value
ResolvePath_OverrideWins(override, config) ==
    IF override.t # "dict" THEN Raised
    ELSE IF override.has THEN override.val
    ELSE IF config.t # "dict" THEN Raised
    ELSE GetDefault(config, Str(<<"/health">>))

\* service_override.get('health_check_path') or
\* service_config.get('health_check_path', '/health'); .get on anything but
\* a dict raises AttributeError
ResolvePath(override, config) ==
    IF override.t # "dict" THEN Raised
    ELSE IF Truthy(Get(override)) THEN Get(override)
    ELSE IF config.t # "dict" THEN Raised
    ELSE GetDefault(config, Str(<<"/health">>))

\* parser.parse_args(): argparse leaves the process by itself with status 2
\* on a usage error and with status 0 after printing the help
ParseArgsExit(argv) ==
    CASE argv = "usage" -> 2
      [] argv = "help"  -> 0

\* sys.exit(0 if success else 1)
ExitStatus(success) == IF success THEN 0 ELSE 1

(***************************************************************************)
(* The run                                                                 *)
(***************************************************************************)
Complete(stage) == done' = Append(done, stage)

ParseArgs ==
    /\ pc = "parse_args"
    /\ IF fs.argv = "ok"
       THEN pc' = "read_base" /\ exitCode' = exitCode
       ELSE pc' = "exited" /\ exitCode' = ParseArgsExit(fs.argv)
    /\ UNCHANGED <<fs, template_content, before, service_config, service_override,
                   health_check_path, gi, mi, out, done>>

ReadBase ==
    /\ pc = "read_base"
    /\ IF fs.base.readable
       THEN /\ template_content' = fs.base.text
            /\ before' = fs.base.text
            /\ pc' = "load_config"
       ELSE /\ pc' = "except"
            /\ UNCHANGED <<template_content, before>>
    /\ UNCHANGED <<fs, service_config, service_override, health_check_path,
                   gi, mi, out, done, exitCode>>

LoadConfig ==
    /\ pc = "load_config"
    /\ IF fs.config.kind = "invalid"
       THEN pc' = "except" /\ UNCHANGED service_config
       ELSE pc' = "load_override" /\ service_config' = ConfigOf(fs.config)
    /\ UNCHANGED <<fs, template_content, before, service_override,
                   health_check_path, gi, mi, out, done, exitCode>>

LoadOverride ==
    /\ pc = "load_override"
    /\ IF fs.override.kind = "invalid"
       THEN pc' = "except" /\ UNCHANGED service_override
       ELSE pc' = "resolve" /\ service_override' = ConfigOf(fs.override)
    /\ UNCHANGED <<fs, template_content, before, service_config,
                   health_check_path, gi, mi, out, done, exitCode>>

Resolve ==
    /\ pc = "resolve"
    /\ LET value == ResolvePath(service_override, service_config)
       IN  IF value = Raised
           THEN pc' = "except" /\ UNCHANGED <<health_check_path, done>>
           ELSE pc' = "inject" /\ health_check_path' = value /\ Complete("resolve")
    /\ UNCHANGED <<fs, template_content, before, service_config, service_override,
                   gi, mi, out, exitCode>>

InjectVariable ==
    /\ pc = "inject"
    /\ before' = template_content
    /\ template_content' = Inject(template_content, Format(health_check_path))
    /\ pc' = "unwrap"
    /\ gi' = 1
    /\ Complete("inject")
    /\ UNCHANGED <<fs, service_config, service_override, health_check_path,
                   mi, out, exitCode>>

Unwrap ==
    /\ pc = "unwrap"
    /\ before' = template_content
    /\ template_content' = UnwrapStep(template_content, systemd_conditionals[gi])
    /\ IF gi < Len(systemd_conditionals)
       THEN gi' = gi + 1 /\ pc' = "unwrap" /\ UNCHANGED <<mi, done>>
       ELSE gi' = gi /\ pc' = "splice" /\ mi' = 1 /\ Complete("unwrap")
    /\ UNCHANGED <<fs, service_config, service_override, health_check_path,
                   out, exitCode>>

Splice ==
    /\ pc = "splice"
    /\ before' = template_content
    /\ template_content' = SpliceStep(template_content, includes[mi], fs.parts)
    /\ IF mi < Len(includes)
       THEN mi' = mi + 1 /\ pc' = "splice" /\ UNCHANGED done
       ELSE mi' = mi /\ pc' = "write" /\ Complete("splice")
    /\ UNCHANGED <<fs, service_config, service_override, health_check_path,
                   gi, out, exitCode>>

WriteOutput ==
    /\ pc = "write"
    /\ IF fs.writable
       THEN /\ out' = [written |-> TRUE, text |-> template_content,
                       writes |-> out.writes + 1]
            /\ pc' = "return"
            /\ Complete("write")
       ELSE pc' = "except" /\ UNCHANGED <<out, done>>
    /\ UNCHANGED <<fs, template_content, before, service_config, service_override,
                   health_check_path, gi, mi, exitCode>>

\* return True, then sys.exit(0 if success else 1) in main
Return ==
    /\ pc = "return"
    /\ exitCode' = ExitStatus(TRUE)
    /\ pc' = "exited"
    /\ UNCHANGED <<fs, template_content, before, service_config, service_override,
                   health_check_path, gi, mi, out, done>>

\* The handler without its sys.exit(1): main returns and the status is 0
Except_ExitsZero ==
    /\ pc = "except"
    /\ exitCode' = 0
    /\ pc' = "exited"
    /\ UNCHANGED <<fs, template_content, before, service_config, service_override,
                   health_check_path, gi, mi, out, done>>

\* except Exception in main
Except ==
    /\ pc = "except"
    /\ exitCode' = 1
    /\ pc' = "exited"
    /\ UNCHANGED <<fs, template_content, before, service_config, service_override,
                   health_check_path, gi, mi, out, done>>

(***************************************************************************)
(* The runs explored: base templates, fragment directories, configuration  *)
(* files and command lines                                                 *)
(***************************************************************************)
\* The longest base template, counted in pieces
MaxChunks == 3

\* The markers that base templates carry a pattern of: one whose label the
\* splicer writes differs from the pattern's header (runtime_install), one
\* whose label is the header itself (health_check)
TemplateMarkers == {1, 5}

\* A task declaration on a line of its own, one indentation step in
TaskLine == <<NL, IND, NAME, NL>>

\* The pieces a base template is put together from
Chunks ==
    { <<"x">>, <<NL>>, <<IND>>, TaskLine, <<IND, ENDIF>> }
        \cup { systemd_conditionals[g].start : g \in DOMAIN systemd_conditionals }
        \cup { includes[m].start_pattern : m \in TemplateMarkers }
        \cup { includes[m].simple_pattern : m \in TemplateMarkers }

RECURSIVE Texts(_)
Texts(n) ==
    IF n = 0 THEN { <<>> }
    ELSE LET shorter == Texts(n - 1)
         IN  shorter \cup { c \o t : c \in Chunks, t \in shorter }

Templates == Texts(MaxChunks)

\* Fragment files
NoPart == [exists |-> FALSE, text |-> <<>>]
Part(text) == [exists |-> TRUE, text |-> text]
OneLine == <<"do_thing: 1">>
PaddedLines == <<NL, "do_thing: 1", NL, IND, NL, IND, "other: 2", NL>>
Nested == <<"tasks:", NL>> \o includes[1].simple_pattern

NoParts == [f \in FragmentFiles |-> NoPart]
PartSets ==
    { [f \in FragmentFiles |->
          IF f = includes[1].file THEN a ELSE IF f = includes[5].file THEN b ELSE NoPart]
      : a \in {NoPart, Part(<<>>), Part(PaddedLines)},
        b \in {NoPart, Part(OneLine), Part(Nested)} }

\* Configuration files
Absent == [kind |-> "absent", doc |-> None]
Invalid == [kind |-> "invalid", doc |-> None]
Document(d) == [kind |-> "doc", doc |-> d]
ConfigFiles(values) ==
    { Absent, Invalid, Document(None), Document(List), Document(EmptyDict) }
        \cup { Document(Dict(TRUE, v)) : v \in values }
BaseConfigs == ConfigFiles({ None, Str(<<>>), Str(<<"/status">>) })
OverrideConfigs ==
    ConfigFiles({ None, Str(<<>>), Str(<<"/live">>), Str(<<"/a", NL, "/b">>) })

Run(argv, readable, text, config, override, parts, writable) ==
    [ argv |-> argv, base |-> [readable |-> readable, text |-> text],
      config |-> config, override |-> override, parts |-> parts,
      writable |-> writable ]

\* Every base template, with no fragment files
TemplateRuns ==
    { Run("ok", TRUE, t, Absent, Absent, p, TRUE) :
        t \in Templates, p \in {NoParts} }

\* Every fragment directory, against the shorter base templates
PartRuns ==
    { Run("ok", TRUE, t, Absent, Absent, p, TRUE) :
        t \in Texts(MaxChunks - 1), p \in PartSets }

\* Every stage guard with text before it, a body and text after it
GuardRuns ==
    { Run("ok", TRUE,
          p \o systemd_conditionals[g].start \o b \o systemd_conditionals[g].end \o q,
          Absent, Absent, NoParts, TRUE) :
        g \in DOMAIN systemd_conditionals,
        p \in { <<>>, TaskLine, <<"x", NL>> },
        b \in Texts(MaxChunks - 2),
        q \in { <<>>, <<NL, "x">> } }

\* Every command line, configuration and failure, against a few base
\* templates
ConfigRuns ==
    { Run(a, r, t, c, o, NoParts, w) :
        a \in {"ok", "usage", "help"}, r \in BOOLEAN,
        t \in { <<>>, <<"x", NL, NAME, NL, "x">>,
                 <<"x", NL, IND, HOSTS, SP, "all", NL, NAME>> },
        c \in BaseConfigs, o \in OverrideConfigs, w \in BOOLEAN }

Init ==
    /\ fs \in TemplateRuns \cup PartRuns \cup GuardRuns \cup ConfigRuns
    /\ pc = "parse_args"
    /\ template_content = <<>>
    /\ before = <<>>
    /\ service_config = EmptyDict
    /\ service_override = EmptyDict
    /\ health_check_path = None
    /\ gi = 1
    /\ mi = 1
    /\ out = [written |-> FALSE, text |-> <<>>, writes |-> 0]
    /\ done = <<>>
    /\ exitCode = "none"

Next ==
    \/ ParseArgs
    \/ ReadBase
    \/ LoadConfig
    \/ LoadOverride
    \/ Resolve
    \/ InjectVariable
    \/ Unwrap
    \/ Splice
    \/ WriteOutput
    \/ Return
    \/ Except
(***************************************************************************)
(* Properties                                                              *)
(***************************************************************************)
\* Where p occurs in s
Occurrences(s, p) == { i \in 1..Len(s) : StartsAt(s, p, i) }

Completed(stage) == \E i \in DOMAIN done : done[i] = stage

\* The value a configuration file gives the key, when it is a mapping that
\* has the key
HasKey(file) == file.kind = "doc" /\ file.doc.t = "dict" /\ file.doc.has

\* C2: the resolved health_check_path is the deployment override's value
\* when that value is present and truthy, otherwise the service-type
\* config's value when the key is present there, otherwise '/health'; an
\* empty override value gives way to the base value, and a missing file
\* counts as an empty mapping.
C2_OverridePrecedence ==
    Completed("resolve") =>
        health_check_path =
            IF HasKey(fs.override) /\ Truthy(fs.override.doc.val)
            THEN fs.override.doc.val
            ELSE IF HasKey(fs.config) THEN fs.config.doc.val
            ELSE Str(<<"/health">>)

\* An empty override value was set aside for the base config's value
C2_Witness ==
    /\ Completed("resolve")
    /\ HasKey(fs.override)
    /\ fs.override.doc.val = Str(<<>>)
    /\ health_check_path = Str(<<"/status">>)

\* The guard whose pass of the unwrapper has just run, 0 when the last step
\* was not one
LastGuard ==
    IF pc = "unwrap" /\ gi = 2 THEN 1
    ELSE IF pc = "splice" /\ mi = 1 THEN 2
    ELSE 0

\* The label comment each guard keeps
GuardLabel(g) ==
    IF g = 1 THEN <<POINT, SP, "Systemd", SP, "Service">> ELSE <<IND, STATUSCHECKS>>

\* A guard is resolvable in s when an end token follows a start marker
Resolvable(s, g) ==
    \E i \in Occurrences(s, systemd_conditionals[g].start) :
        \E j \in Occurrences(s, systemd_conditionals[g].end) : j > i

\* The number of places p occurs at in s
Count(s, p) == Cardinality(Occurrences(s, p))

\* C3: when the document holds a guard (its first start marker, body text
\* without the end token, the end token), the guard's pass leaves
\* everything before the start marker, the guard's label, the body and
\* everything after the end token, in that order: the body is whole, the
\* guard's condition directive is gone and its label stays once.
C3_UnwrapPreservesBody ==
    LastGuard # 0 =>
        LET g == systemd_conditionals[LastGuard]
        IN  \A i \in Occurrences(before, g.start) :
              \A j \in Occurrences(before, g.end) :
                LET body == SubSeq(before, i + Len(g.start), j - 1)
                IN  ( /\ \A k \in Occurrences(before, g.start) : i <= k
                      /\ j >= i + Len(g.start)
                      /\ Occurrences(body, g.end) = {} )
                    => /\ template_content =
                              Upto(before, i) \o GuardLabel(LastGuard) \o body
                                  \o From(before, j + Len(g.end))
                       /\ Count(template_content, <<IFSYSTEMD>>)
                              = Count(before, <<IFSYSTEMD>>) - 1
                       /\ Count(template_content, GuardLabel(LastGuard))
                              = Count(before, GuardLabel(LastGuard))

\* A guard around a task line, with text before it, has been unwrapped:
\* the label is followed by the task line, and the directive is gone
C3_Witness ==
    /\ LastGuard = 1
    /\ In(systemd_conditionals[1].start \o TaskLine \o systemd_conditionals[1].end, before)
    /\ ~StartsAt(before, systemd_conditionals[1].start, 1)
    /\ In(GuardLabel(1) \o TaskLine, template_content)
    /\ ~In(<<IFSYSTEMD>>, template_content)

\* C4: a guard whose start marker is absent, or present with no end token
\* after it, is left as it is by its pass: the document does not change
\* and no error is raised.
C4_UnresolvableGuardIntact ==
    (LastGuard # 0 /\ ~Resolvable(before, LastGuard)) =>
        template_content = before /\ pc # "except"

\* A start marker with no end token after it went through its pass
C4_Witness ==
    /\ LastGuard # 0
    /\ In(systemd_conditionals[LastGuard].start, before)
    /\ ~Resolvable(before, LastGuard)
    /\ template_content = before

\* The line the declaration is due before: the first whose stripped
\* content begins with '- name:' or '- hosts:', the first line when there
\* is none
FirstDeclaration(lines) ==
    LET declarations == { i \in DOMAIN lines : IsDeclaration(lines[i]) }
    IN  IF declarations = {} THEN 1
        ELSE CHOOSE i \in declarations : \A j \in declarations : i <= j

JustInjected == pc = "unwrap" /\ gi = 1

\* C5, as amended: the lines before line k are kept, lines k and k+1 are
\* the comment and the set directive, line k+2 is an empty line, and every
\* original line from k on sits three lines further down (for a resolved
\* value without a line break).
C5_InjectionPosition ==
    (JustInjected /\ ~In(<<NL>>, Format(health_check_path))) =>
        LET old == Split(before)
            new == Split(template_content)
            k == FirstDeclaration(old)
        IN  /\ Len(new) = Len(old) + 3
            /\ \A i \in 1..(k - 1) : new[i] = old[i]
            /\ new[k] = <<HCCOMMENT>>
            /\ new[k + 1] = <<SETOPEN>> \o Format(health_check_path) \o <<SETCLOSE>>
            /\ new[k + 2] = <<>>
            /\ \A i \in k..Len(old) : new[i + 3] = old[i]

\* The declaration went in before a declaration line that is not the
\* first line, with lines before and after it
C5_Witness ==
    /\ JustInjected
    /\ ~In(<<NL>>, Format(health_check_path))
    /\ FirstDeclaration(Split(before)) > 1
    /\ IsDeclaration(Split(before)[FirstDeclaration(Split(before))])
    /\ Len(Split(before)) > FirstDeclaration(Split(before))

\* C5 as stated: the declaration takes lines k and k+1 and every original
\* line from k on sits exactly two lines further down.
C5_ShiftByTwo ==
    (JustInjected /\ ~In(<<NL>>, Format(health_check_path))) =>
        LET old == Split(before)
            new == Split(template_content)
            k == FirstDeclaration(old)
        IN  /\ \A i \in 1..(k - 1) : new[i] = old[i]
            /\ new[k] = <<HCCOMMENT>>
            /\ new[k + 1] = <<SETOPEN>> \o Format(health_check_path) \o <<SETCLOSE>>
            /\ \A i \in k..Len(old) : new[i + 2] = old[i]

\* A configuration file whose document is something other than a mapping
NotAMapping(file) == file.kind = "doc" /\ Truthy(file.doc) /\ file.doc.t # "dict"

\* A step before the write fails: the base template cannot be opened, a
\* configuration file cannot be parsed, or a document that is not a
\* mapping is asked for the key
StepFails ==
    \/ ~fs.base.readable
    \/ fs.config.kind = "invalid"
    \/ fs.override.kind = "invalid"
    \/ NotAMapping(fs.override)
    \/ /\ NotAMapping(fs.config)
       /\ ~(HasKey(fs.override) /\ Truthy(fs.override.doc.val))

\* C7, as amended: the output file is written at most once and only after
\* the resolver, the injector, the unwrapper and the splicer have
\* completed; when a step before the write fails the file is never written
\* and the status is 1; and in a run whose arguments parse, the status is 0
\* exactly when the file has been written.  A run that ends in argument
\* parsing writes nothing.
C7_AllOrNothing ==
    /\ out.writes <= 1
    /\ out.written =>
           /\ Completed("resolve") /\ Completed("inject")
           /\ Completed("unwrap") /\ Completed("splice")
    /\ (fs.argv = "ok" /\ StepFails) => ~out.written
    /\ (pc = "exited" /\ fs.argv = "ok" /\ StepFails) => exitCode = 1
    /\ (pc = "exited" /\ fs.argv = "ok") => (exitCode = 0 <=> out.written)
    /\ fs.argv # "ok" => ~out.written

\* A run stopped by an unparseable override file, after the base template
\* had been read: nothing written, status 1
C7_Witness ==
    /\ pc = "exited"
    /\ fs.argv = "ok"
    /\ fs.base.readable
    /\ fs.config.kind # "invalid"
    /\ fs.override.kind = "invalid"
    /\ ~out.written
    /\ exitCode = 1

\* C7 as stated, for every run of the command: the status is 0 exactly
\* when the output file has been written.
C7_ZeroIffWritten ==
    pc = "exited" => (exitCode = 0 <=> out.written)

\* The directives and header comments of the template language used here
DirectiveTokens ==
    { POINT, STATUSCHECKS, IFSYSTEMD, ENDIF }
        \cup { includes[m].start_pattern[8] : m \in DOMAIN includes }
        \cup { includes[m].simple_pattern[1] : m \in DOMAIN includes }

\* Position i of s is the start of a line, or follows one indentation step
\* that starts the line
LineStart(s, i) ==
    \/ i = 1
    \/ s[i - 1] = NL
    \/ s[i - 1] = IND /\ (i = 2 \/ s[i - 2] = NL)

\* Every directive of s stands on a line of its own, at most one
\* indentation step in, and every header comment starts a line
Tidy(s) ==
    \A i \in DOMAIN s :
        s[i] \in DirectiveTokens =>
            /\ LineStart(s, i)
            /\ s[i] = POINT \/ i = Len(s) \/ s[i + 1] = NL

NoFragments == \A f \in FragmentFiles : ~fs.parts[f].exists

\* C1: when the service-type directory holds none of the five fragment
\* files, the text written contains no marker's conditional pattern and no
\* marker's simple pattern.  Stated for base templates whose directives
\* each stand on a line of their own.
C1_IdempotentAbsence ==
    (out.written /\ NoFragments /\ Tidy(fs.base.text)) =>
        \A m \in DOMAIN includes :
            /\ ~In(includes[m].start_pattern, out.text)
            /\ ~In(includes[m].simple_pattern, out.text)

\* The lines a fragment is due to appear as: four spaces before every
\* non-blank line of the stripped fragment, an empty line for every blank
\* one
DueLines(text) ==
    LET lines == Split(Strip(text))
    IN  [ i \in DOMAIN lines |->
            IF Strip(lines[i]) = <<>> THEN <<>> ELSE <<IND>> \o lines[i] ]

\* The lines of s from line n on start with the given lines
LinesAt(s, n, lines) ==
    /\ n + Len(lines) - 1 <= Len(s)
    /\ \A i \in DOMAIN lines : s[n + i - 1] = lines[i]

\* C6: when a marker's fragment file exists and one of the marker's
\* patterns occurs in the template, the merged output holds the fragment's
\* lines, in their order, each non-blank one as a line of exactly four
\* spaces and the line, each blank one as an empty line.  Stated for base
\* templates without stage guards, whose directives each stand on a line
\* of their own, and fragments without marker text.
C6_FragmentLinesIndented ==
    ( /\ out.written
      /\ Tidy(fs.base.text)
      /\ \A g \in DOMAIN systemd_conditionals :
             ~In(systemd_conditionals[g].start, fs.base.text)
      /\ \A f \in FragmentFiles : \A m \in DOMAIN includes :
             ~In(includes[m].simple_pattern, fs.parts[f].text) )
    => \A m \in DOMAIN includes :
         ( /\ fs.parts[includes[m].file].exists
           /\ \/ In(includes[m].start_pattern, fs.base.text)
              \/ In(includes[m].simple_pattern, fs.base.text) )
         => \E n \in DOMAIN Split(out.text) :
                LinesAt(Split(out.text), n, DueLines(fs.parts[includes[m].file].text))

\* C8: the splicer, run on its own output with the same fragment files,
\* finds no marker left and returns the document as it is.  Stated for
\* runs without fragment files, on base templates whose directives each
\* stand on a line of their own.
C8_SplicerIdempotent ==
    (pc = "write" /\ NoFragments /\ Tidy(fs.base.text)) =>
        SpliceAll(template_content, fs.parts) = template_content

\* Every order the five markers can be processed in
Orders ==
    { o \in [DOMAIN includes -> DOMAIN includes] :
        \A i, j \in DOMAIN includes : o[i] = o[j] => i = j }

\* C9: the splicer's result is the same whichever order the five markers
\* are processed in.  Stated for base templates whose directives each
\* stand on a line of their own.
C9_OrderInsensitive ==
    (pc = "splice" /\ mi = 1 /\ Tidy(fs.base.text)) =>
        \A o \in Orders :
            SpliceFrom(template_content, o, 1, fs.parts)
                = SpliceAll(template_content, fs.parts)

\* C10: the injector followed by the unwrapper leaves the number of
\* occurrences of every marker's conditional pattern and simple pattern
\* as it was in the base template.  Stated for base templates whose
\* directives each stand on a line of their own.
C10_MarkersUndisturbed ==
    (pc = "splice" /\ mi = 1 /\ Tidy(fs.base.text)) =>
        \A m \in DOMAIN includes :
            /\ Count(template_content, includes[m].start_pattern)
                   = Count(fs.base.text, includes[m].start_pattern)
            /\ Count(template_content, includes[m].simple_pattern)
                   = Count(fs.base.text, includes[m].simple_pattern)

Spec == Init /\ [][Next]_vars

====
